---- MODULE Spec2Model ----
(***************************************************************************)
(* Model of smithay's dmabuf module (src/backend/allocator/dmabuf.rs):     *)
(* the DmabufBuilder, the Dmabuf / WeakDmabuf handles over an              *)
(* Arc<DmabufInternal>, and the file descriptors owned by the planes.      *)
(*                                                                         *)
(* Dmabuf is Arc<DmabufInternal> and WeakDmabuf is Weak<DmabufInternal>,   *)
(* so the shared state of one descriptor is the Arc control block: the     *)
(* atomic strong and weak counters next to the data.  Every atomic         *)
(* operation on a counter is one step of the model; an operation made of   *)
(* several atomic operations (drop of the last handle, upgrade) takes      *)
(* several steps, between which other threads run.                         *)
(***************************************************************************)
EXTENDS Integers, Sequences, FiniteSets, TLC

\* pub const MAX_PLANES: usize = 4;
MAX_PLANES == 4

\* Bounds of the model: threads, descriptors, handles alive at once (over all
\* descriptors), file descriptors the caller creates (at least 2 * MaxDesc),
\* and the largest plane index the caller passes.
NumThreads == 2
MaxDesc == 2
MaxRefs == 5
MaxFd == 5
MaxIdx == 2
\* The commits of a PixelShaderElement that are followed.
MaxCommit == 3

Threads == 1..NumThreads
DescIds == 1..MaxDesc
Fds == 1..MaxFd

\* Modifier: the two sentinels and one vendor specific layout.
Modifiers == {"Invalid", "Linear", "Vendor"}
\* Fourcc codes.
Fourccs == {"Argb8888", "Xrgb8888"}
\* DmabufFlags bit sets: empty, Y_INVERT.
FlagSets == {0, 1}
\* Size<i32, BufferCoords>
Sizes == {<<1, 1>>, <<1920, 1080>>}

NoBuilder == [planes |-> <<>>, size |-> <<0, 0>>, format |-> "none", flags |-> 0]
NoRet == [op |-> "none", ok |-> FALSE, d |-> 0]
NoCur == [d |-> 0, n |-> 0]

\* No backend buffer, no error, no Result.
NoBuf == [kind |-> "none", d |-> 0]
NoErr == [boxed |-> [dyn |-> "none"]]
NoRes == [ok |-> FALSE, d |-> 0, err |-> "none"]
\* No create_buffer call has been made on the DmabufAllocator.
NoAlloc ==
    [pc |-> "idle", b |-> NoBuf, log |-> <<>>, bres |-> NoRes, eres |-> NoRes,
     res |-> [ok |-> FALSE, d |-> 0, err |-> NoErr]]

\* No PixelShaderElement has been created.
NoPixel ==
    [id |-> 0, commit_counter |-> 0, area |-> <<0, 0, 0, 0>>,
     opaque_regions |-> <<>>, additional_uniforms |-> <<>>]
\* No texture program override, no Result of a draw.
NoOverride == [shader |-> "none", additional_uniforms |-> <<>>]
NoDraw == [ok |-> FALSE, err |-> "none"]
\* No TextureShaderWrapperElement has been created.
NoWrapper ==
    [shader |-> "none", additional_uniforms |-> <<>>,
     opaque_regions |-> [some |-> FALSE, v |-> <<>>], pc |-> "none",
     result |-> NoDraw, ret |-> NoDraw]
\* A Gles2Frame with no override installed and no call made on it.
NoFrame == [tex_program_override |-> NoOverride, log |-> <<>>]

VARIABLES
    builder,   \* the DmabufBuilder being filled (its DmabufInternal), or NoBuilder
    fdTable,   \* per OwnedFd: who owns it, and how often it was closed
    inner,     \* per descriptor: the Arc control block and its DmabufInternal
    strongH,   \* per descriptor: number of live Dmabuf values
    weakH,     \* per descriptor: number of live WeakDmabuf values
    pc,        \* per thread: where it is inside a multi-step operation
    cur,       \* per thread: the locals of that operation
    ret,       \* the value returned by the call that completed last
    alloc,     \* the DmabufAllocator::create_buffer call in progress or returned
    pixel,     \* the PixelShaderElement, or NoPixel
    wrapper,   \* the TextureShaderWrapperElement and its draw call in progress
    frame      \* the Gles2Frame: its texture program override, the calls made on it

vars == <<builder, fdTable, inner, strongH, weakH, pc, cur, ret, alloc,
          pixel, wrapper, frame>>

\* The elements of the gles2 renderer.
gles == <<pixel, wrapper, frame>>

\* struct Plane
Plane(fd, idx, offset, stride, modifier) ==
    [fd |-> fd, plane_idx |-> idx, offset |-> offset, stride |-> stride,
     modifier |-> modifier]

\* The control block before Arc::new.
NoInner ==
    [state |-> "unalloc", strong |-> 0, weak |-> 0, rel |-> 0,
     data |-> NoBuilder]

Init ==
    /\ builder = NoBuilder
    /\ fdTable = [f \in Fds |-> [owner |-> "none", closes |-> 0]]
    /\ inner = [d \in DescIds |-> NoInner]
    /\ strongH = [d \in DescIds |-> 0]
    /\ weakH = [d \in DescIds |-> 0]
    /\ pc = [t \in Threads |-> "idle"]
    /\ cur = [t \in Threads |-> NoCur]
    /\ ret = NoRet
    /\ alloc = NoAlloc
    /\ pixel = NoPixel
    /\ wrapper = NoWrapper
    /\ frame = NoFrame

----------------------------------------------------------------------------
\* Helpers

Min(S) == CHOOSE x \in S : \A y \in S : x <= y

Range(s) == {s[i] : i \in 1..Len(s)}

\* OwnedFd values the caller has not created yet.
FreshFds == {f \in Fds : fdTable[f].owner = "none"}

\* Descriptor ids Arc::new has not used yet.
FreeDescs == {d \in DescIds : inner[d].state = "unalloc"}

\* Drop of an OwnedFd: close(2).
CloseFd(tab, f) ==
    [tab EXCEPT ![f] = [owner |-> "closed", closes |-> tab[f].closes + 1]]

\* A drop that closes the first plane's file descriptor and forgets the rest.
CloseAllFirstOnly(tab, planes) ==
    IF planes = <<>> THEN tab ELSE CloseFd(tab, Head(planes).fd)

RECURSIVE CloseAll(_, _)
\* Drop of a Vec<Plane>: every plane's OwnedFd is closed.
CloseAll(tab, planes) ==
    IF planes = <<>> THEN tab
    ELSE CloseAll(CloseFd(tab, Head(planes).fd), Tail(planes))

\* An insertion that puts p before the elements of equal key.
InsertUnstable(sorted, p) ==
    LET k == Cardinality({i \in 1..Len(sorted) : sorted[i].plane_idx < p.plane_idx})
    IN SubSeq(sorted, 1, k) \o <<p>> \o SubSeq(sorted, k + 1, Len(sorted))

\* Where a stable sort by key puts p in the sorted prefix: after every
\* element whose key is <= p's.
InsertStable(sorted, p) ==
    LET k == Cardinality({i \in 1..Len(sorted) : sorted[i].plane_idx <= p.plane_idx})
    IN SubSeq(sorted, 1, k) \o <<p>> \o SubSeq(sorted, k + 1, Len(sorted))

RECURSIVE SortFrom(_, _)
SortFrom(sorted, rest) ==
    IF rest = <<>> THEN sorted
    ELSE SortFrom(InsertStable(sorted, Head(rest)), Tail(rest))

\* The planes left in insertion order.
SortSkipped(planes) == planes

RECURSIVE DedupByKey(_)
\* Of each run of planes with one key the first is kept.
DedupByKey(planes) ==
    IF Len(planes) <= 1 THEN planes
    ELSE IF planes[1].plane_idx = planes[2].plane_idx
         THEN DedupByKey(<<planes[1]>> \o SubSeq(planes, 3, Len(planes)))
         ELSE <<planes[1]>> \o DedupByKey(Tail(planes))

\* A sort that also removes the planes whose index repeats.
SortDedup(planes) == DedupByKey(SortFrom(<<>>, planes))

\* planes.sort_by_key(|plane| plane.plane_idx): a stable sort.
SortByKey(planes) == SortFrom(<<>>, planes)

----------------------------------------------------------------------------
\* DmabufBuilder

\* self.internal.planes.len() == MAX_PLANES
IsFullOffByOne(planes) == Len(planes) > MAX_PLANES

IsFull(planes) == Len(planes) = MAX_PLANES

\* self.internal.planes.is_empty()
NoPlanesUnchecked(planes) == FALSE

NoPlanes(planes) == planes = <<>>

\* Dmabuf::builder(size, format, flags)
NewBuilder(size, format, flags) ==
    /\ builder = NoBuilder
    /\ FreeDescs # {}
    /\ builder' = [planes |-> <<>>, size |-> size, format |-> format, flags |-> flags]
    /\ ret' = NoRet
    /\ UNCHANGED <<fdTable, inner, strongH, weakH, pc, cur, alloc, gles>>

\* An add_plane that, full, returns false with the fd stored in the builder.
AddPlaneRejectKeepsFd(idx, offset, stride, modifier) ==
    /\ builder # NoBuilder
    /\ FreshFds # {}
    /\ LET fd == Min(FreshFds) IN
        IF IsFull(builder.planes)
        THEN /\ fdTable' = [fdTable EXCEPT ![fd].owner = "builder"]
             /\ ret' = [op |-> "add_plane", ok |-> FALSE, d |-> 0]
             /\ UNCHANGED builder
        ELSE /\ builder' = [builder EXCEPT !.planes =
                    Append(@, Plane(fd, idx, offset, stride, modifier))]
             /\ fdTable' = [fdTable EXCEPT ![fd].owner = "builder"]
             /\ ret' = [op |-> "add_plane", ok |-> TRUE, d |-> 0]
    /\ UNCHANGED <<inner, strongH, weakH, pc, cur, alloc, gles>>

\* An add_plane that turns away a plane index the builder already holds.
AddPlaneUniqueIdx(idx, offset, stride, modifier) ==
    /\ builder # NoBuilder
    /\ FreshFds # {}
    /\ LET fd == Min(FreshFds) IN
        IF \/ IsFull(builder.planes)
           \/ \E i \in 1..Len(builder.planes) : builder.planes[i].plane_idx = idx
        THEN /\ fdTable' = CloseFd(fdTable, fd)
             /\ ret' = [op |-> "add_plane", ok |-> FALSE, d |-> 0]
             /\ UNCHANGED builder
        ELSE /\ builder' = [builder EXCEPT !.planes =
                    Append(@, Plane(fd, idx, offset, stride, modifier))]
             /\ fdTable' = [fdTable EXCEPT ![fd].owner = "builder"]
             /\ ret' = [op |-> "add_plane", ok |-> TRUE, d |-> 0]
    /\ UNCHANGED <<inner, strongH, weakH, pc, cur, alloc, gles>>

\* DmabufBuilder::add_plane(&mut self, fd, idx, offset, stride, modifier)
AddPlane(idx, offset, stride, modifier) ==
    /\ builder # NoBuilder
    /\ FreshFds # {}
    /\ LET fd == Min(FreshFds) IN
        IF IsFull(builder.planes)
        THEN \* return false: the fd argument is dropped with the call
             /\ fdTable' = CloseFd(fdTable, fd)
             /\ ret' = [op |-> "add_plane", ok |-> FALSE, d |-> 0]
             /\ UNCHANGED builder
        ELSE /\ builder' = [builder EXCEPT !.planes =
                    Append(@, Plane(fd, idx, offset, stride, modifier))]
             /\ fdTable' = [fdTable EXCEPT ![fd].owner = "builder"]
             /\ ret' = [op |-> "add_plane", ok |-> TRUE, d |-> 0]
    /\ UNCHANGED <<inner, strongH, weakH, pc, cur, alloc, gles>>

\* DmabufBuilder::build(mut self)
Build ==
    /\ builder # NoBuilder
    /\ FreeDescs # {}
    /\ IF NoPlanes(builder.planes)
       THEN /\ ret' = [op |-> "build", ok |-> FALSE, d |-> 0]
            /\ UNCHANGED <<fdTable, inner, strongH>>
       ELSE LET d == Min(FreeDescs)
                sorted == SortByKey(builder.planes)
            IN /\ inner' = [inner EXCEPT ![d] =
                      [state |-> "live", strong |-> 1, weak |-> 1, rel |-> 0,
                       data |-> [builder EXCEPT !.planes = sorted]]]
               /\ fdTable' = [f \in Fds |->
                      IF \E i \in 1..Len(sorted) : sorted[i].fd = f
                      THEN [fdTable[f] EXCEPT !.owner = "desc"]
                      ELSE fdTable[f]]
               /\ strongH' = [strongH EXCEPT ![d] = 1]
               /\ ret' = [op |-> "build", ok |-> TRUE, d |-> d]
    /\ builder' = NoBuilder
    /\ UNCHANGED <<weakH, pc, cur, alloc, gles>>

----------------------------------------------------------------------------
\* Dmabuf / WeakDmabuf

\* Threads inside WeakDmabuf::upgrade on descriptor d: each borrows a WeakDmabuf.
Upgrading(d) == {t \in Threads : pc[t] = "upgrade" /\ cur[t].d = d}

RECURSIVE Sum(_, _)
Sum(f, S) == IF S = {} THEN 0 ELSE LET x == CHOOSE y \in S : TRUE IN f[x] + Sum(f, S \ {x})

\* Handles that exist, or may come to exist from the calls in progress.
Refs ==
    Sum(strongH, DescIds) + Sum(weakH, DescIds)
        + Cardinality({t \in Threads : pc[t] = "upgrade"})

\* Threads inside the drop_slow of descriptor d.
Dropping(d) == {t \in Threads : pc[t] = "drop_slow" /\ cur[t].d = d}

\* A drop that goes on to drop_slow whatever count it read.
DropStrongDecEvery(t, d) ==
    /\ inner' = [inner EXCEPT ![d].strong = @ - 1]
    /\ strongH' = [strongH EXCEPT ![d] = @ - 1]
    /\ pc' = [pc EXCEPT ![t] = "drop_slow"]
    /\ cur' = [cur EXCEPT ![t] = [d |-> d, n |-> 0]]
    /\ ret' = NoRet

\* Arc::drop, first half: strong.fetch_sub(1, Release); the thread that read 1
\* goes on to drop_slow, every other one returns.
DropStrongDec(t, d) ==
    LET old == inner[d].strong IN
    /\ inner' = [inner EXCEPT ![d].strong = old - 1]
    /\ strongH' = [strongH EXCEPT ![d] = @ - 1]
    /\ IF old = 1
       THEN /\ pc' = [pc EXCEPT ![t] = "drop_slow"]
            /\ cur' = [cur EXCEPT ![t] = [d |-> d, n |-> 0]]
            /\ ret' = NoRet
       ELSE /\ ret' = NoRet
            /\ UNCHANGED <<pc, cur>>

\* A clone that copies the pointer and leaves the counter alone.
CloneNoCount(t, d) ==
    /\ pc[t] = "idle"
    /\ strongH[d] >= 1
    /\ Refs < MaxRefs
    /\ strongH' = [strongH EXCEPT ![d] = @ + 1]
    /\ ret' = [op |-> "clone", ok |-> TRUE, d |-> d]
    /\ UNCHANGED <<builder, fdTable, inner, weakH, pc, cur, alloc, gles>>

\* Dmabuf::clone (derived): Arc::clone, strong.fetch_add(1, Relaxed).
Clone(t, d) ==
    /\ pc[t] = "idle"
    /\ strongH[d] >= 1
    /\ Refs < MaxRefs
    /\ inner' = [inner EXCEPT ![d].strong = @ + 1]
    /\ strongH' = [strongH EXCEPT ![d] = @ + 1]
    /\ ret' = [op |-> "clone", ok |-> TRUE, d |-> d]
    /\ UNCHANGED <<builder, fdTable, weakH, pc, cur, alloc, gles>>

\* An export that hands over the pointer without counting it.
ExportNoCount(t, d) ==
    /\ pc[t] = "idle"
    /\ strongH[d] >= 1
    /\ Refs < MaxRefs
    /\ strongH' = [strongH EXCEPT ![d] = @ + 1]
    /\ ret' = [op |-> "export", ok |-> TRUE, d |-> d]
    /\ UNCHANGED <<builder, fdTable, inner, weakH, pc, cur, alloc, gles>>

\* An export that moves the planes out of the descriptor it is called on.
ExportTakesPlanes(t, d) ==
    /\ pc[t] = "idle"
    /\ strongH[d] >= 1
    /\ Refs < MaxRefs
    /\ inner' = [inner EXCEPT ![d].strong = @ + 1, ![d].data.planes = <<>>]
    /\ strongH' = [strongH EXCEPT ![d] = @ + 1]
    /\ ret' = [op |-> "export", ok |-> TRUE, d |-> d]
    /\ UNCHANGED <<builder, fdTable, weakH, pc, cur, alloc, gles>>

\* AsDmabuf for Dmabuf: export(&self) is Ok(self.clone()), the error type is
\* Infallible.
Export(t, d) ==
    /\ pc[t] = "idle"
    /\ strongH[d] >= 1
    /\ Refs < MaxRefs
    /\ inner' = [inner EXCEPT ![d].strong = @ + 1]
    /\ strongH' = [strongH EXCEPT ![d] = @ + 1]
    /\ ret' = [op |-> "export", ok |-> TRUE, d |-> d]
    /\ UNCHANGED <<builder, fdTable, weakH, pc, cur, alloc, gles>>

\* A weak() that holds a strong reference inside the WeakDmabuf.
WeakKeepsAlive(t, d) ==
    /\ pc[t] = "idle"
    /\ strongH[d] >= 1
    /\ Refs < MaxRefs
    /\ inner' = [inner EXCEPT ![d].strong = @ + 1, ![d].weak = @ + 1]
    /\ weakH' = [weakH EXCEPT ![d] = @ + 1]
    /\ ret' = NoRet
    /\ UNCHANGED <<builder, fdTable, strongH, pc, cur, alloc, gles>>

\* Dmabuf::weak: Arc::downgrade, the weak counter goes up by one.
Weak(t, d) ==
    /\ pc[t] = "idle"
    /\ strongH[d] >= 1
    /\ Refs < MaxRefs
    /\ inner' = [inner EXCEPT ![d].weak = @ + 1]
    /\ weakH' = [weakH EXCEPT ![d] = @ + 1]
    /\ ret' = NoRet
    /\ UNCHANGED <<builder, fdTable, strongH, pc, cur, alloc, gles>>

\* Drop of a Dmabuf.
DropStrong(t, d) ==
    /\ pc[t] = "idle"
    /\ strongH[d] >= 1
    /\ DropStrongDec(t, d)
    /\ UNCHANGED <<builder, fdTable, weakH, alloc, gles>>

\* Arc::drop_slow: the DmabufInternal is dropped in place, which closes every
\* plane's OwnedFd, then the weak reference the strong ones share is dropped
\* and with the last weak reference the allocation is freed.
DropSlow(t) ==
    /\ pc[t] = "drop_slow"
    /\ LET d == cur[t].d
           w == inner[d].weak - 1
       IN /\ fdTable' = CloseAll(fdTable, inner[d].data.planes)
          /\ inner' = [inner EXCEPT ![d].rel = @ + 1,
                                    ![d].weak = w,
                                    ![d].state = IF w = 0 THEN "freed" ELSE "dropped"]
          /\ ret' = NoRet
    /\ pc' = [pc EXCEPT ![t] = "idle"]
    /\ cur' = [cur EXCEPT ![t] = NoCur]
    /\ UNCHANGED <<builder, strongH, weakH, alloc, gles>>

\* Drop of a WeakDmabuf: Weak::drop, weak.fetch_sub(1); the one that read 1
\* frees the allocation.  A WeakDmabuf borrowed by a running upgrade cannot
\* be dropped.
DropWeak(t, d) ==
    /\ pc[t] = "idle"
    /\ weakH[d] >= 1
    /\ Upgrading(d) # {} => weakH[d] >= 2
    /\ inner' = [inner EXCEPT ![d].weak = @ - 1,
                              ![d].state = IF inner[d].weak = 1 THEN "freed" ELSE @]
    /\ weakH' = [weakH EXCEPT ![d] = @ - 1]
    /\ ret' = NoRet
    /\ UNCHANGED <<builder, fdTable, strongH, pc, cur, alloc, gles>>

\* WeakDmabuf::upgrade, first step: Weak::upgrade loads the strong counter.
UpgradeLoad(t, d) ==
    /\ pc[t] = "idle"
    /\ weakH[d] >= 1
    /\ Refs < MaxRefs
    /\ pc' = [pc EXCEPT ![t] = "upgrade"]
    /\ cur' = [cur EXCEPT ![t] = [d |-> d, n |-> inner[d].strong]]
    /\ ret' = NoRet
    /\ UNCHANGED <<builder, fdTable, inner, strongH, weakH, alloc, gles>>

\* An upgrade that, having read a count above zero, adds one to the counter
\* without comparing it.
UpgradeCasFetchAdd(t, d) ==
    LET n == cur[t].n IN
    IF n = 0
    THEN /\ ret' = [op |-> "upgrade", ok |-> FALSE, d |-> d]
         /\ pc' = [pc EXCEPT ![t] = "idle"]
         /\ cur' = [cur EXCEPT ![t] = NoCur]
         /\ UNCHANGED <<inner, strongH>>
    ELSE /\ inner' = [inner EXCEPT ![d].strong = @ + 1]
         /\ strongH' = [strongH EXCEPT ![d] = @ + 1]
         /\ ret' = [op |-> "upgrade", ok |-> TRUE, d |-> d]
         /\ pc' = [pc EXCEPT ![t] = "idle"]
         /\ cur' = [cur EXCEPT ![t] = NoCur]

\* An upgrade that increments whatever it read, zero included.
UpgradeCasResurrect(t, d) ==
    LET n == cur[t].n IN
    IF inner[d].strong = n
    THEN /\ inner' = [inner EXCEPT ![d].strong = n + 1]
         /\ strongH' = [strongH EXCEPT ![d] = @ + 1]
         /\ ret' = [op |-> "upgrade", ok |-> TRUE, d |-> d]
         /\ pc' = [pc EXCEPT ![t] = "idle"]
         /\ cur' = [cur EXCEPT ![t] = NoCur]
    ELSE /\ cur' = [cur EXCEPT ![t].n = inner[d].strong]
         /\ ret' = NoRet
         /\ UNCHANGED <<inner, strongH, pc>>

\* An upgrade that gives up when its compare_exchange fails.
UpgradeCasOnce(t, d) ==
    LET n == cur[t].n IN
    IF n # 0 /\ inner[d].strong = n
    THEN /\ inner' = [inner EXCEPT ![d].strong = n + 1]
         /\ strongH' = [strongH EXCEPT ![d] = @ + 1]
         /\ ret' = [op |-> "upgrade", ok |-> TRUE, d |-> d]
         /\ pc' = [pc EXCEPT ![t] = "idle"]
         /\ cur' = [cur EXCEPT ![t] = NoCur]
    ELSE /\ ret' = [op |-> "upgrade", ok |-> FALSE, d |-> d]
         /\ pc' = [pc EXCEPT ![t] = "idle"]
         /\ cur' = [cur EXCEPT ![t] = NoCur]
         /\ UNCHANGED <<inner, strongH>>

\* The loop of Weak::upgrade on the value n it read last: None on 0, else
\* compare_exchange(n, n + 1); on failure it goes round with the value found.
UpgradeCas(t, d) ==
    LET n == cur[t].n IN
    IF n = 0
    THEN /\ ret' = [op |-> "upgrade", ok |-> FALSE, d |-> d]
         /\ pc' = [pc EXCEPT ![t] = "idle"]
         /\ cur' = [cur EXCEPT ![t] = NoCur]
         /\ UNCHANGED <<inner, strongH>>
    ELSE IF inner[d].strong = n
    THEN /\ inner' = [inner EXCEPT ![d].strong = n + 1]
         /\ strongH' = [strongH EXCEPT ![d] = @ + 1]
         /\ ret' = [op |-> "upgrade", ok |-> TRUE, d |-> d]
         /\ pc' = [pc EXCEPT ![t] = "idle"]
         /\ cur' = [cur EXCEPT ![t] = NoCur]
    ELSE /\ cur' = [cur EXCEPT ![t].n = inner[d].strong]
         /\ ret' = NoRet
         /\ UNCHANGED <<inner, strongH, pc>>

\* WeakDmabuf::upgrade, the remaining steps.
Upgrade(t) ==
    /\ pc[t] = "upgrade"
    /\ UpgradeCas(t, cur[t].d)
    /\ UNCHANGED <<builder, fdTable, weakH, alloc, gles>>

\* A strong_count that reads the weak counter.
StrongCountWeak(d) == inner[d].weak

\* What Weak::strong_count reads.
StrongCount(d) == inner[d].strong

\* WeakDmabuf::is_gone
IsGone(t, d) ==
    /\ pc[t] = "idle"
    /\ weakH[d] >= 1
    /\ ret' = [op |-> "is_gone", ok |-> (StrongCount(d) = 0), d |-> d]
    /\ UNCHANGED <<builder, fdTable, inner, strongH, weakH, pc, cur, alloc, gles>>

----------------------------------------------------------------------------
\* Specifications

\* The descriptor Build makes of a builder holding two planes added in
\* descending order of plane index: file descriptors 2d - 1 and 2d.
BuiltInner(d) ==
    [state |-> "live", strong |-> 1, weak |-> 1, rel |-> 0,
     data |-> [planes |-> SortByKey(<<Plane(2 * d - 1, 1, 0, 4, "Linear"),
                                      Plane(2 * d, 0, 0, 4, "Linear")>>),
               size |-> <<1, 1>>, format |-> "Argb8888", flags |-> 0]]

\* Every descriptor has just been built: one Dmabuf each, no WeakDmabuf.
InitBuilt ==
    /\ builder = NoBuilder
    /\ fdTable = [f \in Fds |->
           IF f <= 2 * MaxDesc THEN [owner |-> "desc", closes |-> 0]
           ELSE [owner |-> "none", closes |-> 0]]
    /\ inner = [d \in DescIds |-> BuiltInner(d)]
    /\ strongH = [d \in DescIds |-> 1]
    /\ weakH = [d \in DescIds |-> 0]
    /\ pc = [t \in Threads |-> "idle"]
    /\ cur = [t \in Threads |-> NoCur]
    /\ ret = NoRet
    /\ alloc = NoAlloc
    /\ pixel = NoPixel
    /\ wrapper = NoWrapper
    /\ frame = NoFrame

\* The handles of the built descriptors, used from several threads.
Next ==
    \/ \E t \in Threads, d \in DescIds : Clone(t, d)
    \/ \E t \in Threads, d \in DescIds : Weak(t, d)
    \/ \E t \in Threads, d \in DescIds : DropStrong(t, d)
    \/ \E t \in Threads : DropSlow(t)
    \/ \E t \in Threads, d \in DescIds : DropWeak(t, d)
    \/ \E t \in Threads, d \in DescIds : UpgradeLoad(t, d)
    \/ \E t \in Threads : Upgrade(t)
    \/ \E t \in Threads, d \in DescIds : IsGone(t, d)
    \/ \E t \in Threads, d \in DescIds : Export(t, d)

Spec == InitBuilt /\ [][Next]_vars

\* The two ways a caller initialises a builder here.
BuilderInputs ==
    {h \in Sizes \X Fourccs \X FlagSets :
        h \in {<<<<1, 1>>, "Argb8888", 0>>, <<<<1920, 1080>>, "Xrgb8888", 1>>}}

\* The builder, fed planes in every order of plane index.
NextBuilder ==
    \/ \E h \in BuilderInputs : NewBuilder(h[1], h[2], h[3])
    \/ \E idx \in 0..MaxIdx : AddPlane(idx, 0, 4, "Linear")
    \/ Build

SpecBuilder == Init /\ [][NextBuilder]_vars

----------------------------------------------------------------------------
\* Properties of the handles (Spec)

\* The file descriptors of descriptor d's planes.
PlaneFds(d) == {p.fd : p \in Range(inner[d].data.planes)}

Built(d) == inner[d].state # "unalloc"

\* C1: the plane file descriptors of a descriptor are released exactly once,
\* by the drop of its last Dmabuf: never while a Dmabuf is left, never twice,
\* and once no Dmabuf is left either the thread whose drop took the count to
\* zero is about to release them or they have been released, each closed once.
C1_ReleasedOnceByLastDrop ==
    \A d \in DescIds : Built(d) =>
        /\ inner[d].rel <= 1
        /\ \A f \in PlaneFds(d) : fdTable[f].closes = inner[d].rel
        /\ inner[d].rel = 1 => strongH[d] = 0
        /\ strongH[d] = 0 => inner[d].rel + Cardinality(Dropping(d)) = 1
        /\ strongH[d] > 0 => Dropping(d) = {}

\* C1 witness: a descriptor that had several handles, weak ones among them,
\* has been released by the last drop.
C1_Witness ==
    \E d \in DescIds :
        /\ strongH[d] = 0 /\ weakH[d] >= 2
        /\ inner[d].rel = 1
        /\ \A f \in PlaneFds(d) : fdTable[f] = [owner |-> "closed", closes |-> 1]

\* C2: while a Dmabuf to a descriptor exists none of its plane file
\* descriptors is released; WeakDmabufs do not keep it alive: with no Dmabuf
\* left and no drop in progress the descriptor is destroyed, however many
\* WeakDmabufs exist.
C2_StrongKeepsAliveWeakDoesNot ==
    \A d \in DescIds : Built(d) =>
        /\ strongH[d] >= 1 =>
              /\ inner[d].state = "live"
              /\ \A f \in PlaneFds(d) : fdTable[f] = [owner |-> "desc", closes |-> 0]
        /\ (strongH[d] = 0 /\ Dropping(d) = {}) =>
              /\ inner[d].state \in {"dropped", "freed"}
              /\ \A f \in PlaneFds(d) : fdTable[f].owner = "closed"

\* C2 witness: a destroyed descriptor with WeakDmabufs outstanding.
C2_Witness ==
    \E d \in DescIds :
        /\ strongH[d] = 0 /\ weakH[d] >= 1
        /\ inner[d].state = "dropped"
        /\ \A f \in PlaneFds(d) : fdTable[f].owner = "closed"

\* C3: under every interleaving of clones and drops the strong counter equals
\* the number of live Dmabufs, and exactly one drop sees it reach zero and
\* releases: no two threads are in, or have completed, the release of one
\* descriptor.
C3_CountExactOneReleaser ==
    \A d \in DescIds : Built(d) =>
        /\ inner[d].strong = strongH[d]
        /\ Cardinality(Dropping(d)) + inner[d].rel <= 1
        /\ inner[d].strong = 0 => Cardinality(Dropping(d)) + inner[d].rel = 1

\* C3 witness: two threads at once are each between the decrement that took
\* a count to zero and the release it owes.
C3_Witness ==
    \E t, u \in Threads :
        /\ t # u
        /\ pc[t] = "drop_slow" /\ pc[u] = "drop_slow"
        /\ inner[cur[t].d].strong = 0 /\ inner[cur[u].d].strong = 0

\* C4: an upgrade never returns a Dmabuf to a descriptor whose strong count
\* had reached zero: it returns one only by taking the count from a non-zero
\* value to the next, on a descriptor that is not released and stays so; else
\* it returns None and changes nothing.
C4_UpgradeNeverResurrects ==
    [][\A t \in Threads : (pc[t] = "upgrade" /\ pc'[t] = "idle") =>
          LET d == cur[t].d IN
          /\ ret'.op = "upgrade" /\ ret'.d = d
          /\ IF ret'.ok
             THEN /\ inner[d].strong > 0
                  /\ inner'[d].strong = inner[d].strong + 1
                  /\ inner[d].state = "live" /\ inner'[d].state = "live"
                  /\ inner'[d].rel = 0 /\ Dropping(d) = {}
                  /\ \A f \in PlaneFds(d) : fdTable'[f].closes = 0
             ELSE /\ inner[d].strong = 0
                  /\ inner' = inner /\ strongH' = strongH
       ]_vars

\* C4 witness: the race itself: an upgrade read a non-zero count, the last
\* Dmabuf was dropped meanwhile, and the upgrade has yet to try its exchange.
C4_Witness ==
    \E t \in Threads :
        /\ pc[t] = "upgrade" /\ cur[t].n >= 1
        /\ inner[cur[t].d].strong = 0

\* C5: while a Dmabuf to the descriptor is alive, upgrade of a WeakDmabuf to
\* it returns a Dmabuf to that same descriptor (one more live handle of it,
\* none of another), and is_gone returns false.
C5_UpgradeWhileAlive ==
    [][/\ \A t \in Threads :
              (pc[t] = "upgrade" /\ pc'[t] = "idle" /\ strongH[cur[t].d] >= 1) =>
                  /\ ret' = [op |-> "upgrade", ok |-> TRUE, d |-> cur[t].d]
                  /\ strongH' = [strongH EXCEPT ![cur[t].d] = @ + 1]
       /\ (ret'.op = "is_gone" /\ strongH[ret'.d] >= 1) => ~ret'.ok
      ]_vars

\* C5 witness: an upgrade returned a Dmabuf next to the one kept alive.
C5_Witness ==
    \E d \in DescIds :
        /\ ret = [op |-> "upgrade", ok |-> TRUE, d |-> d]
        /\ strongH[d] >= 2 /\ weakH[d] >= 1
        /\ inner[d].state = "live"

\* C6: once every Dmabuf to a descriptor is dropped, upgrade of a WeakDmabuf
\* to it returns None and is_gone returns true, and neither call releases
\* anything: the control blocks and the file descriptors are as before it.
C6_GoneAfterLastDrop ==
    [][\A d \in DescIds : (Built(d) /\ strongH[d] = 0) =>
          /\ (ret'.op = "upgrade" /\ ret'.d = d) =>
                 /\ ~ret'.ok
                 /\ inner' = inner /\ fdTable' = fdTable /\ strongH' = strongH
          /\ (ret'.op = "is_gone" /\ ret'.d = d) =>
                 /\ ret'.ok
                 /\ inner' = inner /\ fdTable' = fdTable /\ strongH' = strongH
      ]_vars

\* C6 witness: is_gone returned true on a released descriptor.
C6_Witness ==
    \E d \in DescIds :
        /\ ret = [op |-> "is_gone", ok |-> TRUE, d |-> d]
        /\ strongH[d] = 0 /\ weakH[d] >= 1
        /\ inner[d].rel = 1

----------------------------------------------------------------------------
\* Properties of the builder (SpecBuilder)

\* A step that is a call of build: the only one that consumes the builder.
BuildStep == builder # NoBuilder /\ builder' = NoBuilder

\* A step that is a call of add_plane: the only one that returns its bool.
AddPlaneStep == ret'.op = "add_plane"

\* How often x occurs in sequence s.
Count(s, x) == Cardinality({i \in 1..Len(s) : s[i] = x})

\* t holds exactly the elements of s, each as often.
IsPermutation(s, t) ==
    /\ Len(s) = Len(t)
    /\ \A x \in Range(s) \cup Range(t) : Count(s, x) = Count(t, x)

Ascending(planes) ==
    \A i \in 1..(Len(planes) - 1) : planes[i].plane_idx <= planes[i + 1].plane_idx

\* The place of plane p in a sequence that holds it.
PosOf(planes, p) == CHOOSE k \in 1..Len(planes) : planes[k] = p

\* C7: build on a builder with no planes returns None and creates nothing
\* (no descriptor, no handle), whatever size, format and flags it holds.
C7_BuildEmptyIsNone ==
    [][(BuildStep /\ builder.planes = <<>>) =>
          /\ ret' = [op |-> "build", ok |-> FALSE, d |-> 0]
          /\ inner' = inner /\ strongH' = strongH /\ weakH' = weakH
          /\ fdTable' = fdTable
      ]_vars

\* C7 witness: a build returned None (here after an earlier build of a
\* descriptor or before any).
C7_Witness ==
    /\ ret = [op |-> "build", ok |-> FALSE, d |-> 0]
    /\ builder = NoBuilder

\* C8: build on a builder holding 1..4 planes, added with any plane indices in
\* any order, succeeds with a new descriptor whose plane sequence is a
\* permutation of the added planes in ascending order of plane index.
C8_BuildSortsPlanes ==
    [][(BuildStep /\ Len(builder.planes) \in 1..MAX_PLANES) =>
          /\ ret'.op = "build" /\ ret'.ok /\ ret'.d \in DescIds
          /\ ~Built(ret'.d)
          /\ inner'[ret'.d].state = "live"
          /\ IsPermutation(builder.planes, inner'[ret'.d].data.planes)
          /\ Ascending(inner'[ret'.d].data.planes)
      ]_vars

\* C8 witness: a descriptor built of at least three planes that were not
\* added in ascending order (file descriptors are handed out in the order of
\* the add_plane calls).
C8_Witness ==
    /\ ret.op = "build" /\ ret.ok
    /\ LET planes == inner[ret.d].data.planes IN
          /\ Len(planes) >= 3
          /\ planes[1].plane_idx < planes[Len(planes)].plane_idx
          /\ \E i, j \in 1..Len(planes) : i < j /\ planes[i].fd > planes[j].fd

\* C9: planes added with the same plane index keep their insertion order in
\* the plane sequence build produces.
C9_BuildKeepsOrderOfTies ==
    [][(BuildStep /\ builder.planes # <<>>) =>
          /\ ret'.ok
          /\ \A i, j \in 1..Len(builder.planes) :
                (i < j /\ builder.planes[i].plane_idx = builder.planes[j].plane_idx) =>
                    PosOf(inner'[ret'.d].data.planes, builder.planes[i])
                        < PosOf(inner'[ret'.d].data.planes, builder.planes[j])
      ]_vars

\* C9 witness: a built descriptor with two planes of one plane index and a
\* plane of a smaller index that was added after them.
C9_Witness ==
    /\ ret.op = "build" /\ ret.ok
    /\ LET planes == inner[ret.d].data.planes IN
          \E i, j, k \in 1..Len(planes) :
              /\ i < j /\ planes[i].plane_idx = planes[j].plane_idx
              /\ planes[k].plane_idx < planes[i].plane_idx
              /\ planes[k].fd > planes[j].fd

\* C10: add_plane on a builder that holds MAX_PLANES planes returns false and
\* leaves the builder as it was: planes, size, format and flags.
C10_AddPlaneFullRejected ==
    [][(AddPlaneStep /\ Len(builder.planes) = MAX_PLANES) =>
          /\ ret' = [op |-> "add_plane", ok |-> FALSE, d |-> 0]
          /\ builder' = builder
          /\ Len(builder'.planes) = MAX_PLANES
      ]_vars

\* C10 witness: add_plane returned false on a builder that holds four planes.
C10_Witness ==
    /\ ret = [op |-> "add_plane", ok |-> FALSE, d |-> 0]
    /\ Len(builder.planes) = MAX_PLANES
    /\ <<builder.size, builder.format, builder.flags>> \in BuilderInputs


----------------------------------------------------------------------------
\* Accessors of Dmabuf

\* A plane count read off the capacity the builder reserved.
NumPlanesCapacity(d) == MAX_PLANES

\* Dmabuf::num_planes
NumPlanes(d) == Len(inner[d].data.planes)

\* C11: every Dmabuf that exists has between 1 and MAX_PLANES planes, and
\* num_planes() is the number of add_plane calls that returned true on its
\* builder: the builder starts with none, gains one plane with each call
\* that returns true and none with a call that returns false, and build
\* hands over as many as the builder holds.
C11_PlaneCountIsAcceptedAdds ==
    [][/\ \A d \in DescIds : (inner'[d].state = "live" /\ strongH'[d] >= 1) =>
              NumPlanes(d)' \in 1..MAX_PLANES
       /\ (builder = NoBuilder /\ builder' # NoBuilder) => Len(builder'.planes) = 0
       /\ AddPlaneStep =>
              Len(builder'.planes) = Len(builder.planes) + (IF ret'.ok THEN 1 ELSE 0)
       /\ \A d \in DescIds : (BuildStep /\ ret'.ok /\ ret'.d = d) =>
              NumPlanes(d)' = Len(builder.planes)
      ]_vars

\* C11 witness: a Dmabuf of four planes built after a fifth add_plane was
\* turned down (its file descriptor is closed, the other four are the planes).
C11_Witness ==
    /\ ret.op = "build" /\ ret.ok
    /\ NumPlanes(ret.d) = MAX_PLANES
    /\ \E f \in Fds : /\ fdTable[f].owner = "closed"
                      /\ \A g \in PlaneFds(ret.d) : g < f


\* No two planes of the sequence carry the same plane index.
DistinctIdx(planes) ==
    \A i, j \in 1..Len(planes) : i # j => planes[i].plane_idx # planes[j].plane_idx

\* C12 as stated: in every Dmabuf build produced the planes have pairwise
\* distinct plane indices.
C12_AsStated ==
    \A d \in DescIds : (inner[d].state = "live" /\ strongH[d] >= 1) =>
        DistinctIdx(inner[d].data.planes)

\* C12 amended: the planes of a built Dmabuf have pairwise distinct plane
\* indices exactly when the planes added to its builder had: build neither
\* rejects nor removes planes that share an index.
C12_DistinctIffAddedDistinct ==
    [][\A d \in DescIds : (BuildStep /\ ret'.ok /\ ret'.d = d) =>
          (DistinctIdx(inner'[d].data.planes) <=> DistinctIdx(builder.planes))
      ]_vars

\* C12 witness: a Dmabuf built of three planes with three different indices.
C12_Witness ==
    /\ ret.op = "build" /\ ret.ok
    /\ Len(inner[ret.d].data.planes) = 3
    /\ DistinctIdx(inner[ret.d].data.planes)


----------------------------------------------------------------------------
\* Equality of handles (Spec)

\* A Dmabuf value: the pointer its Arc holds.
Dmabuf(d) == [ptr |-> d]

\* What the builder was given for descriptor d: size, format, flags and each
\* plane's index, offset, stride and modifier (every OwnedFd is its own).
InputsOf(d) ==
    [size |-> inner[d].data.size, format |-> inner[d].data.format,
     flags |-> inner[d].data.flags,
     planes |-> [i \in 1..Len(inner[d].data.planes) |->
                    [plane_idx |-> inner[d].data.planes[i].plane_idx,
                     offset |-> inner[d].data.planes[i].offset,
                     stride |-> inner[d].data.planes[i].stride,
                     modifier |-> inner[d].data.planes[i].modifier]]]

\* An equality that compares what the two descriptors hold.
DmabufEqByContent(a, b) == InputsOf(a.ptr) = InputsOf(b.ptr)

\* PartialEq for Dmabuf: Arc::ptr_eq(&self.0, &other.0)
DmabufEq(a, b) == a.ptr = b.ptr

\* C13: equality of Dmabufs is identity: a Dmabuf equals itself, a clone or
\* an upgraded WeakDmabuf equals the Dmabuf it came from (the descriptor that
\* gained the handle), and Dmabufs of two descriptors built from identical
\* inputs are unequal.
C13_EqualityIsIdentity ==
    [][/\ \A a, b \in DescIds : (strongH'[a] >= 1 /\ strongH'[b] >= 1) =>
              /\ DmabufEq(Dmabuf(a), Dmabuf(a))
              /\ (a # b /\ InputsOf(a) = InputsOf(b)) => ~DmabufEq(Dmabuf(a), Dmabuf(b))
              /\ DmabufEq(Dmabuf(a), Dmabuf(b)) <=> a = b
       /\ \A d \in DescIds :
              ((ret'.op = "clone" \/ (ret'.op = "upgrade" /\ ret'.ok)) /\ ret'.d = d) =>
                  \E o \in DescIds : /\ strongH'[o] = strongH[o] + 1
                                     /\ DmabufEq(Dmabuf(d), Dmabuf(o))
      ]_vars

\* C13 witness: a clone was returned while a Dmabuf of another descriptor,
\* built from the same inputs, is alive.
C13_Witness ==
    /\ ret.op = "clone"
    /\ \E e \in DescIds : /\ e # ret.d
                          /\ strongH[e] >= 1 /\ strongH[ret.d] >= 2
                          /\ InputsOf(e) = InputsOf(ret.d)


----------------------------------------------------------------------------
\* Immutability of the descriptor (Spec)

\* Buffer::size
Size(d) == inner[d].data.size

\* Buffer::format: the descriptor's code with the first plane's modifier.
Format(d) ==
    [code |-> inner[d].data.format, modifier |-> inner[d].data.planes[1].modifier]

\* Dmabuf::handles
Handles(d) == [i \in 1..Len(inner[d].data.planes) |-> inner[d].data.planes[i].fd]

\* Dmabuf::offsets
Offsets(d) == [i \in 1..Len(inner[d].data.planes) |-> inner[d].data.planes[i].offset]

\* Dmabuf::strides
Strides(d) == [i \in 1..Len(inner[d].data.planes) |-> inner[d].data.planes[i].stride]

\* A has_modifier that takes the linear layout for an explicit modifier.
HasModifierLinearCounts(d) == inner[d].data.planes[1].modifier # "Invalid"

\* Dmabuf::has_modifier
HasModifier(d) ==
    /\ inner[d].data.planes[1].modifier # "Invalid"
    /\ inner[d].data.planes[1].modifier # "Linear"

\* Dmabuf::y_inverted: flags.contains(Y_INVERT), bit 1.
YInverted(d) == inner[d].data.flags % 2 = 1

\* What the accessors of a Dmabuf of descriptor d return.
Accessors(d) ==
    <<NumPlanes(d), Handles(d), Offsets(d), Strides(d), HasModifier(d),
      YInverted(d), Size(d), Format(d)>>

\* C14: once built, no operation on the handles (clone, weak, upgrade,
\* is_gone, export, drop) changes the descriptor's planes, size, format or
\* flags while it lives, and every accessor returns what it returned before.
C14_DescriptorImmutable ==
    [][\A d \in DescIds : (inner[d].state = "live" /\ inner'[d].state = "live") =>
          /\ inner'[d].data = inner[d].data
          /\ Accessors(d)' = Accessors(d)
          /\ NumPlanes(d)' >= 1
      ]_vars

\* C14 witness: after an export, with a second handle and a WeakDmabuf
\* around, the descriptor holds the two planes it was built with.
C14_Witness ==
    /\ ret.op = "export"
    /\ strongH[ret.d] >= 2 /\ weakH[ret.d] >= 1
    /\ inner[ret.d].state = "live"
    /\ Accessors(ret.d) = <<2, <<2 * ret.d, 2 * ret.d - 1>>, <<0, 0>>, <<4, 4>>, FALSE,
                            FALSE, <<1, 1>>, [code |-> "Argb8888", modifier |-> "Linear"]>>

\* C19: a Dmabuf exporting itself succeeds and returns a Dmabuf of the same
\* descriptor: that descriptor's strong count and handles go up by one, no
\* other control block changes, no descriptor is created and no file
\* descriptor is touched.
C19_ExportIsClone ==
    [][ret'.op = "export" =>
          /\ ret'.ok
          /\ \E d \in DescIds :
                /\ ret'.d = d
                /\ inner[d].state = "live"
                /\ inner' = [inner EXCEPT ![d].strong = @ + 1]
                /\ strongH' = [strongH EXCEPT ![d] = @ + 1]
          /\ fdTable' = fdTable /\ weakH' = weakH
      ]_vars

\* C19 witness: an export returned, the descriptor now has two Dmabufs.
C19_Witness ==
    /\ ret = [op |-> "export", ok |-> TRUE, d |-> ret.d]
    /\ ret.d \in DescIds
    /\ inner[ret.d].strong >= 2 /\ strongH[ret.d] = inner[ret.d].strong


----------------------------------------------------------------------------
\* Ownership of the file descriptors (SpecOwn)

\* A builder filled with planes of one index, the Dmabufs built from it and
\* everything one thread does with their handles, up to the release.
NextOwn ==
    \/ NewBuilder(<<1, 1>>, "Argb8888", 0)
    \/ AddPlane(0, 0, 4, "Linear")
    \/ Build
    \/ \E d \in DescIds : Clone(1, d)
    \/ \E d \in DescIds : Weak(1, d)
    \/ \E d \in DescIds : Export(1, d)
    \/ \E d \in DescIds : DropStrong(1, d)
    \/ DropSlow(1)
    \/ \E d \in DescIds : DropWeak(1, d)
    \/ \E d \in DescIds : UpgradeLoad(1, d)
    \/ Upgrade(1)

SpecOwn == Init /\ [][NextOwn]_vars

\* How many planes of the builder hold file descriptor f.
HeldByBuilder(f) ==
    Cardinality({i \in 1..Len(builder.planes) : builder.planes[i].fd = f})

\* How many planes of descriptors not yet dropped hold file descriptor f.
HeldByDescs(f) ==
    Cardinality({x \in DescIds \X (1..MAX_PLANES) :
        /\ inner[x[1]].state = "live"
        /\ x[2] <= Len(inner[x[1]].data.planes)
        /\ inner[x[1]].data.planes[x[2]].fd = f})

\* Every file descriptor handed in has one owner: a plane of the builder,
\* then a plane of one descriptor, then nobody once it is closed, once.
OneOwner ==
    \A f \in Fds :
        /\ HeldByBuilder(f) + HeldByDescs(f) <= 1
        /\ fdTable[f].owner = "none" =>
              HeldByBuilder(f) + HeldByDescs(f) = 0 /\ fdTable[f].closes = 0
        /\ fdTable[f].owner = "builder" =>
              HeldByBuilder(f) = 1 /\ fdTable[f].closes = 0
        /\ fdTable[f].owner = "desc" =>
              HeldByDescs(f) = 1 /\ fdTable[f].closes = 0
        /\ fdTable[f].owner = "closed" =>
              HeldByBuilder(f) + HeldByDescs(f) = 0 /\ fdTable[f].closes = 1

\* The control blocks differ in their counters at most.
OnlyCountsChange ==
    \A d \in DescIds :
        inner'[d] = [inner[d] EXCEPT !.strong = inner'[d].strong,
                                     !.weak = inner'[d].weak]

\* C15: each plane file descriptor has exactly one owner at any time, the
\* builder, then one descriptor, then none (closed once), and is never
\* duplicated; clone, weak, upgrade and export leave every file descriptor
\* as it is and change nothing but reference counts.
C15_FdHasOneOwner ==
    [][/\ OneOwner'
       /\ \A f \in Fds :
              fdTable'[f].owner # fdTable[f].owner =>
                  <<fdTable[f].owner, fdTable'[f].owner>> \in
                      {<<"none", "builder">>, <<"none", "closed">>,
                       <<"builder", "desc">>, <<"desc", "closed">>}
       /\ (\/ ret'.op \in {"clone", "export", "upgrade"}
           \/ \E d \in DescIds : weakH'[d] = weakH[d] + 1) =>
              /\ fdTable' = fdTable /\ builder' = builder
              /\ OnlyCountsChange
      ]_vars

\* C15 witness: the file descriptors of a descriptor that has been cloned
\* and has a WeakDmabuf are open and owned by it, those of a descriptor that
\* has been destroyed are closed, once.
C15_Witness ==
    /\ \E d \in DescIds : /\ strongH[d] >= 2 /\ weakH[d] >= 1
                          /\ Len(inner[d].data.planes) >= 2
                          /\ \A f \in PlaneFds(d) :
                                 fdTable[f] = [owner |-> "desc", closes |-> 0]
    /\ \E d \in DescIds : /\ inner[d].state = "dropped" /\ inner[d].rel = 1
                          /\ \A f \in PlaneFds(d) :
                                 fdTable[f] = [owner |-> "closed", closes |-> 1]


(***************************************************************************)
(* DmabufAllocator<A>: the adapter over a backend allocator A whose buffer *)
(* type implements AsDmabuf.  The backend and its buffer type are the      *)
(* generic parameters of the adapter: what they return is drawn from the   *)
(* outcomes their signatures allow.                                        *)
(***************************************************************************)

\* The error values of the backend allocator (A::Error) and of the export of
\* its buffers (<A::Buffer as AsDmabuf>::Error).
BackendErrors == {"E1", "E2"}
ExportErrors == {"F1", "F2"}

\* The buffer types of a backend: Dmabuf itself, whose export cannot fail,
\* and a backend-native buffer, whose export can.
BufKinds == {"dmabuf", "native"}

\* The thread that calls DmabufAllocator::create_buffer.
AllocThread == 1

\* Result<T, E>.
Ok(d) == [ok |-> TRUE, d |-> d, err |-> "none"]
Err(e) == [ok |-> FALSE, d |-> 0, err |-> e]

\* err.into(): the error value moved into a Box<dyn Error + Send + Sync>.
IntoBox(e) == [dyn |-> e]

\* An error boxed as its message only: the value itself is gone.
IntoBoxMessage(e) == [dyn |-> "message"]

\* AnyError(box), and the cause it reports: source() is Some(&*self.0).
AnyError(box) == [boxed |-> box]
Source(any) == any.boxed.dyn

\* .map_err(|err| AnyError(err.into())) on the backend's error.
WrapBackendErrLost(e) == AnyError(IntoBoxMessage(e))
WrapBackendErr(e) == AnyError(IntoBox(e))

\* .map_err(|err| AnyError(err.into())) on the export's error.
WrapExportErrLost(f) == AnyError(IntoBoxMessage(f))
WrapExportErr(f) == AnyError(IntoBox(f))

\* The Result<Dmabuf, AnyError> of the adapter.
AdapterOk(d) == [ok |-> TRUE, d |-> d, err |-> NoErr]
AdapterErr(any) == [ok |-> FALSE, d |-> 0, err |-> any]

\* The and_then closure's value for the export result r of buffer b.
ExportArmSwallows(b, r) == AdapterOk(b.d)
ExportArm(b, r) ==
    IF r.ok THEN AdapterOk(r.d) ELSE AdapterErr(WrapExportErr(r.err))

\* The strong handles on d owned by the create_buffer call in progress: the
\* one inside the backend's buffer b.
AdapterHolds(d) == IF alloc.b.d = d THEN 1 ELSE 0

\* create_buffer, the backend fails with e: map_err wraps e, and_then passes
\* the Err through without calling its closure, and the call returns.
AllocCreateErr(e) ==
    /\ pc[AllocThread] = "idle"
    /\ alloc.pc \in {"idle", "returned"}
    /\ alloc' = [pc |-> "returned", b |-> NoBuf, log |-> <<"create_buffer">>,
                 bres |-> Err(e), eres |-> NoRes,
                 res |-> AdapterErr(WrapBackendErr(e))]
    /\ ret' = NoRet
    /\ UNCHANGED <<builder, fdTable, inner, strongH, weakH, pc, cur, gles>>

\* create_buffer, the backend succeeds with a buffer b of the given kind that
\* owns a handle of descriptor d; map_err passes the Ok through.
AllocCreateOk(kind, d) ==
    /\ pc[AllocThread] = "idle"
    /\ alloc.pc \in {"idle", "returned"}
    /\ strongH[d] >= 1
    /\ Refs + 1 < MaxRefs
    /\ inner' = [inner EXCEPT ![d].strong = @ + 1]
    /\ strongH' = [strongH EXCEPT ![d] = @ + 1]
    /\ alloc' = [pc |-> "created", b |-> [kind |-> kind, d |-> d],
                 log |-> <<"create_buffer">>,
                 bres |-> Ok(d), eres |-> NoRes,
                 res |-> [ok |-> FALSE, d |-> 0, err |-> NoErr]]
    /\ ret' = NoRet
    /\ UNCHANGED <<builder, fdTable, weakH, pc, cur, gles>>

\* The and_then closure: AsDmabuf::export(&b), then map_err on its result.
\* A Dmabuf exports as a clone of itself and never fails; a native buffer
\* exports a handle of its descriptor or fails with f.
AllocExport(out) ==
    /\ pc[AllocThread] = "idle"
    /\ alloc.pc = "created"
    /\ alloc.b.kind = "dmabuf" => out.ok
    /\ LET b == alloc.b
           r == IF out.ok THEN Ok(b.d) ELSE out
       IN /\ IF r.ok
             THEN /\ inner' = [inner EXCEPT ![b.d].strong = @ + 1]
                  /\ strongH' = [strongH EXCEPT ![b.d] = @ + 1]
             ELSE UNCHANGED <<inner, strongH>>
          /\ alloc' = [alloc EXCEPT !.pc = "exported",
                                    !.log = Append(@, "export"),
                                    !.eres = r,
                                    !.res = ExportArm(b, r)]
    /\ ret' = NoRet
    /\ UNCHANGED <<builder, fdTable, weakH, pc, cur, gles>>

\* The end of the closure with the buffer kept by the adapter.
AllocDropBufKeeps ==
    /\ pc[AllocThread] = "idle"
    /\ alloc.pc = "exported"
    /\ alloc' = [alloc EXCEPT !.pc = "returned"]
    /\ ret' = NoRet
    /\ UNCHANGED <<builder, fdTable, inner, strongH, weakH, pc, cur, gles>>

\* The end of the closure: b, taken by value, is dropped, and with it the
\* handle it owns; the thread that read 1 goes on to drop_slow before the
\* call returns.
AllocDropBuf ==
    /\ pc[AllocThread] = "idle"
    /\ alloc.pc = "exported"
    /\ DropStrongDec(AllocThread, alloc.b.d)
    /\ alloc' = [alloc EXCEPT !.pc = "returned", !.b = NoBuf]
    /\ UNCHANGED <<builder, fdTable, weakH, gles>>

\* The outcomes of an export.
ExportOutcomes == {Ok(0)} \cup {Err(f) : f \in ExportErrors}

\* create_buffer has returned to its caller.
Returned == alloc.pc = "returned" /\ pc[AllocThread] = "idle"

\* The adapter's calls, next to the drops of the handles that the backend
\* and the caller own, from another thread.
NextAlloc ==
    \/ \E e \in BackendErrors : AllocCreateErr(e)
    \/ \E kind \in BufKinds, d \in DescIds : AllocCreateOk(kind, d)
    \/ \E out \in ExportOutcomes : AllocExport(out)
    \/ AllocDropBuf
    \/ \E t \in Threads : DropSlow(t)
    \/ \E d \in DescIds : strongH[d] > AdapterHolds(d) /\ DropStrong(2, d)

SpecAlloc == InitBuilt /\ [][NextAlloc]_vars


\* C16: when the backend's create_buffer fails with an error E, the adapter's
\* create_buffer returns an AnyError whose source() is E, and export has not
\* been invoked.
C16_BackendErrorForwarded ==
    (alloc.pc # "idle" /\ ~alloc.bres.ok) =>
        /\ alloc.pc = "returned"
        /\ ~alloc.res.ok
        /\ Source(alloc.res.err) = alloc.bres.err
        /\ alloc.log = <<"create_buffer">>
        /\ alloc.eres = NoRes

\* C16 witness: a call has returned on which the backend failed with E1 and
\* whose error reports E1.
C16_Witness ==
    /\ Returned
    /\ alloc.bres = Err("E1")
    /\ ~alloc.res.ok /\ Source(alloc.res.err) = "E1"

\* C17: when the backend succeeds and the export of its buffer fails with an
\* error F, the adapter's create_buffer returns an AnyError whose source() is
\* F, and no Dmabuf.
C17_ExportErrorForwarded ==
    (alloc.bres.ok /\ alloc.eres.err \in ExportErrors) =>
        /\ alloc.pc \in {"exported", "returned"}
        /\ ~alloc.res.ok
        /\ alloc.res.d = 0
        /\ Source(alloc.res.err) = alloc.eres.err

\* C17 witness: a call has returned on which the backend succeeded, the
\* export failed with F2, and whose error reports F2.
C17_Witness ==
    /\ Returned
    /\ alloc.bres.ok /\ alloc.eres = Err("F2")
    /\ ~alloc.res.ok /\ Source(alloc.res.err) = "F2"

\* C18: create_buffer returns Ok exactly when both the backend's
\* create_buffer and the export succeeded, and then with the Dmabuf the
\* export produced; in every other case it returns an error with a cause.
\* The backend is called once per call, before the export, and the export at
\* most once.
C18_OkIffBothOk ==
    /\ alloc.log \in {<<>>, <<"create_buffer">>, <<"create_buffer", "export">>}
    /\ alloc.pc = "returned" =>
        /\ alloc.res.ok <=> (alloc.bres.ok /\ alloc.eres.ok)
        /\ alloc.res.ok => alloc.res.d = alloc.eres.d /\ alloc.res.err = NoErr
        /\ ~alloc.res.ok =>
               Source(alloc.res.err) \in BackendErrors \cup ExportErrors
        /\ alloc.log = IF alloc.bres.ok
                       THEN <<"create_buffer", "export">>
                       ELSE <<"create_buffer">>

\* C18 witness: a call has returned Ok with the Dmabuf of the export, after
\* one backend call and one export.
C18_Witness ==
    /\ Returned
    /\ alloc.res.ok /\ alloc.bres.ok /\ alloc.eres.ok
    /\ alloc.res.d = alloc.eres.d /\ strongH[alloc.res.d] >= 1
    /\ alloc.log = <<"create_buffer", "export">>

\* C20: the backend's buffer is dropped before create_buffer returns, on the
\* Ok and on the Err path; every strong reference counted is then a Dmabuf
\* the backend or the caller holds, none the adapter, and a descriptor that no
\* Dmabuf refers to is released, its file descriptors closed, a failed export
\* included.
C20_NativeBufferDropped ==
    /\ alloc.pc \in {"idle", "returned"} => alloc.b = NoBuf
    /\ alloc.pc \in {"created", "exported"} => strongH[alloc.b.d] >= 1
    /\ Returned => \A d \in DescIds :
           /\ AdapterHolds(d) = 0
           /\ inner[d].strong = strongH[d]
           /\ (strongH[d] = 0 /\ Dropping(d) = {}) =>
                  /\ inner[d].rel = 1
                  /\ \A f \in PlaneFds(d) :
                         fdTable[f] = [owner |-> "closed", closes |-> 1]

\* C20 witness: a call whose export failed has returned, the handle in the
\* backend's buffer was the last one of its descriptor, and the descriptor
\* has been released.
C20_Witness ==
    /\ Returned
    /\ alloc.bres.ok /\ ~alloc.eres.ok
    /\ alloc.b = NoBuf
    /\ inner[alloc.bres.d].rel = 1 /\ strongH[alloc.bres.d] = 0
    /\ \A f \in PlaneFds(alloc.bres.d) : fdTable[f].owner = "closed"


----------------------------------------------------------------------------
\* add_plane on a builder that is not full

\* The file descriptor the caller passes to its next add_plane call.
NextFd == Min(FreshFds)

\* C21: on a builder that holds fewer than MAX_PLANES planes add_plane
\* returns true and appends one plane, made of the fd, plane index, offset,
\* stride and modifier it was given, after the planes held; these, the size,
\* the format and the flags stay as they were.  A plane index that the
\* builder already holds is taken like any other.
C21_AddPlaneAppends ==
    [][/\ (AddPlaneStep /\ Len(builder.planes) < MAX_PLANES) =>
             /\ ret' = [op |-> "add_plane", ok |-> TRUE, d |-> 0]
             /\ Len(builder'.planes) = Len(builder.planes) + 1
             /\ SubSeq(builder'.planes, 1, Len(builder.planes)) = builder.planes
             /\ builder'.planes[Len(builder'.planes)].fd = NextFd
             /\ fdTable'[NextFd].owner = "builder"
             /\ <<builder'.size, builder'.format, builder'.flags>>
                    = <<builder.size, builder.format, builder.flags>>
       /\ \A idx \in 0..MaxIdx :
             (AddPlane(idx, 0, 4, "Linear") /\ Len(builder.planes) < MAX_PLANES) =>
                 builder'.planes =
                     Append(builder.planes, Plane(NextFd, idx, 0, 4, "Linear"))
      ]_vars

\* C21 witness: add_plane returned true for a plane whose index the builder
\* held already; the plane is the last of the builder's planes.
C21_Witness ==
    /\ ret = [op |-> "add_plane", ok |-> TRUE, d |-> 0]
    /\ Len(builder.planes) >= 3
    /\ LET last == builder.planes[Len(builder.planes)] IN
          /\ \E i \in 1..(Len(builder.planes) - 1) :
                 builder.planes[i].plane_idx = last.plane_idx
          /\ \E i \in 1..(Len(builder.planes) - 1) :
                 builder.planes[i].plane_idx > last.plane_idx
          /\ \A i \in 1..(Len(builder.planes) - 1) : builder.planes[i].fd < last.fd


----------------------------------------------------------------------------
\* The modifier a Dmabuf reports

\* The builder, fed planes of the lowest and the highest plane index with
\* every modifier.
NextModifier ==
    \/ NewBuilder(<<1, 1>>, "Xrgb8888", 0)
    \/ \E idx \in {0, MaxIdx}, m \in Modifiers : AddPlane(idx, 0, 4, m)
    \/ Build

SpecModifier == Init /\ [][NextModifier]_vars

\* The plane of the smallest plane index, the one added first if several
\* have it.
MinIdxPlane(planes) ==
    LET i == CHOOSE k \in 1..Len(planes) :
                 /\ \A j \in 1..Len(planes) : planes[k].plane_idx <= planes[j].plane_idx
                 /\ \A j \in 1..(k - 1) : planes[j].plane_idx > planes[k].plane_idx
    IN planes[i]

\* C22: has_modifier() and the modifier of format() of a Dmabuf are those of
\* the plane with the smallest plane index among the planes added to its
\* builder, whichever plane was added first: has_modifier() is true exactly
\* when that modifier is neither Invalid nor Linear, and format() is the
\* builder's fourcc code with that modifier.
C22_ModifierOfLowestPlane ==
    [][(BuildStep /\ builder.planes # <<>>) =>
          \A d \in DescIds : (ret'.ok /\ ret'.d = d) =>
              LET p == MinIdxPlane(builder.planes) IN
              /\ inner'[d].data.planes[1] = p
              /\ HasModifier(d)' <=> p.modifier \notin {"Invalid", "Linear"}
              /\ Format(d)' = [code |-> builder.format, modifier |-> p.modifier]
      ]_vars

\* C22 witness: a Dmabuf whose first added plane (the one of the smallest
\* file descriptor) has a vendor modifier and is not its plane of the
\* smallest index, which is linear: has_modifier() is false.
C22_Witness ==
    /\ ret.op = "build" /\ ret.ok
    /\ LET planes == inner[ret.d].data.planes IN
          /\ Len(planes) >= 2
          /\ \E i \in 2..Len(planes) :
                 /\ \A j \in 1..Len(planes) : planes[i].fd <= planes[j].fd
                 /\ planes[i].modifier = "Vendor"
                 /\ planes[i].plane_idx > planes[1].plane_idx
          /\ planes[1].modifier = "Linear"
          /\ ~HasModifier(ret.d)
          /\ Format(ret.d) = [code |-> "Xrgb8888", modifier |-> "Linear"]


----------------------------------------------------------------------------
\* add_plane on a full builder

\* The file descriptors of the planes the builder holds.
BuilderFds == {p.fd : p \in Range(builder.planes)}

\* C23: when add_plane returns false the file descriptor it was given is
\* closed, once, by the end of the call, and the builder is as it was; the
\* file descriptor never belongs to the builder, and is not among the planes
\* of a Dmabuf built later.
C23_RejectedFdConsumed ==
    [][/\ (AddPlaneStep /\ ~ret'.ok) =>
             /\ fdTable[NextFd] = [owner |-> "none", closes |-> 0]
             /\ fdTable'[NextFd] = [owner |-> "closed", closes |-> 1]
             /\ \A f \in Fds \ {NextFd} : fdTable'[f] = fdTable[f]
             /\ builder' = builder
       /\ \A f \in Fds : fdTable[f].owner = "closed" =>
             /\ fdTable'[f] = fdTable[f]
             /\ f \notin BuilderFds'
             /\ \A d \in DescIds : Built(d)' => f \notin PlaneFds(d)'
      ]_vars

\* C23 witness: a Dmabuf has been built from a builder on which add_plane
\* had returned false; the file descriptor of that call, the one created
\* last, is closed and none of the Dmabuf's.
C23_Witness ==
    /\ ret.op = "build" /\ ret.ok
    /\ Len(inner[ret.d].data.planes) = MAX_PLANES
    /\ \E f \in Fds :
          /\ fdTable[f] = [owner |-> "closed", closes |-> 1]
          /\ f \notin PlaneFds(ret.d)
          /\ \A g \in PlaneFds(ret.d) : g < f /\ fdTable[g].owner = "desc"


----------------------------------------------------------------------------
\* is_gone over time

\* No thread other than t is inside an operation.
QuiescentBut(t) == \A u \in Threads \ {t} : pc[u] = "idle"

\* C24: is_gone of a WeakDmabuf never goes back: when it has returned true
\* the strong count is zero, a strong count of zero stays zero, and with it
\* every later is_gone returns true and every later upgrade returns None.
\* With no other operation in progress, an upgrade returns None exactly when
\* is_gone is true.
C24_IsGoneMonotonic ==
    [][\A d \in DescIds :
          /\ (ret'.op = "is_gone" /\ ret'.d = d) =>
                 (ret'.ok <=> inner'[d].strong = 0)
          /\ (Built(d) /\ inner[d].strong = 0) =>
                 /\ inner'[d].strong = 0
                 /\ (ret'.op = "is_gone" /\ ret'.d = d) => ret'.ok
                 /\ (ret'.op = "upgrade" /\ ret'.d = d) => ~ret'.ok
          /\ \A t \in Threads :
                 (/\ QuiescentBut(t)
                  /\ pc[t] = "upgrade" /\ cur[t].d = d
                  /\ ret'.op = "upgrade") =>
                     (~ret'.ok <=> StrongCount(d) = 0)
      ]_vars

\* C24 witness: is_gone returned true while an upgrade that had read a count
\* above zero is still in progress.
C24_Witness ==
    \E d \in DescIds, t \in Threads :
        /\ ret = [op |-> "is_gone", ok |-> TRUE, d |-> d]
        /\ pc[t] = "upgrade" /\ cur[t].d = d /\ cur[t].n >= 1
        /\ inner[d].strong = 0


(***************************************************************************)
(* PixelShaderElement (backend/renderer/gles2/element.rs): a render        *)
(* element with an id, a commit counter, an area, opaque regions and the   *)
(* uniforms of its shader.                                                 *)
(***************************************************************************)

\* Rectangle<i32, Logical>: <<x, y, w, h>>.
Areas == {<<0, 0, 1, 1>>, <<0, 0, 2, 2>>}

\* Vec<Rectangle<i32, Logical>>
RegionVecs == {<<>>, <<<<0, 0, 1, 1>>>>, <<<<0, 0, 1, 1>>, <<1, 1, 1, 1>>>>}

\* Option<Vec<Rectangle<i32, Logical>>>
None == [some |-> FALSE, v |-> <<>>]
Some(v) == [some |-> TRUE, v |-> v]
RegionOpts == {None} \cup {Some(v) : v \in RegionVecs}

\* Vec<Uniform<'_>>: each uniform a name and a value, borrowed or owned.
UniformVecs ==
    {<<>>, <<[name |-> "tint", value |-> 1, owned |-> FALSE]>>,
     <<[name |-> "tint", value |-> 2, owned |-> TRUE]>>}

\* The ids Id::new() hands out.
ElementIds == {1, 2}

\* Option::unwrap_or_default on the opaque regions: None is the empty Vec.
UnwrapOrDefault(o) == IF o.some THEN o.v ELSE <<>>

\* additional_uniforms.into_iter().map(|u| u.into_owned()).collect()
IntoOwned(us) == [i \in 1..Len(us) |-> [us[i] EXCEPT !.owned = TRUE]]

\* CommitCounter::increment, as called by the element.
Increment(c) == c + 1

\* PixelShaderElement::new
NewPixel(id, area, opaque_regions, additional_uniforms) ==
    /\ pixel = NoPixel
    /\ pixel' = [id |-> id, commit_counter |-> 0, area |-> area,
                 opaque_regions |-> UnwrapOrDefault(opaque_regions),
                 additional_uniforms |-> IntoOwned(additional_uniforms)]
    /\ ret' = [op |-> "new", ok |-> TRUE, d |-> 0]
    /\ UNCHANGED <<builder, fdTable, inner, strongH, weakH, pc, cur, alloc,
                   wrapper, frame>>

\* A resize that commits whatever it is given.
ResizeAlwaysCommits(area, opaque_regions) ==
    /\ pixel # NoPixel
    /\ pixel.commit_counter < MaxCommit
    /\ pixel' = [pixel EXCEPT !.area = area,
                              !.opaque_regions = UnwrapOrDefault(opaque_regions),
                              !.commit_counter = Increment(@)]
    /\ ret' = [op |-> "resize", ok |-> TRUE, d |-> 0]
    /\ UNCHANGED <<builder, fdTable, inner, strongH, weakH, pc, cur, alloc,
                   wrapper, frame>>

\* PixelShaderElement::resize
Resize(area, opaque_regions) ==
    /\ pixel # NoPixel
    /\ pixel.commit_counter < MaxCommit
    /\ LET regions == UnwrapOrDefault(opaque_regions) IN
          IF pixel.area # area \/ pixel.opaque_regions # regions
          THEN pixel' = [pixel EXCEPT !.area = area,
                                      !.opaque_regions = regions,
                                      !.commit_counter = Increment(@)]
          ELSE UNCHANGED pixel
    /\ ret' = [op |-> "resize", ok |-> TRUE, d |-> 0]
    /\ UNCHANGED <<builder, fdTable, inner, strongH, weakH, pc, cur, alloc,
                   wrapper, frame>>

\* PixelShaderElement::update_uniforms
UpdateUniforms(additional_uniforms) ==
    /\ pixel # NoPixel
    /\ pixel.commit_counter < MaxCommit
    /\ pixel' = [pixel EXCEPT !.additional_uniforms = IntoOwned(additional_uniforms),
                              !.commit_counter = Increment(@)]
    /\ ret' = [op |-> "update_uniforms", ok |-> TRUE, d |-> 0]
    /\ UNCHANGED <<builder, fdTable, inner, strongH, weakH, pc, cur, alloc,
                   wrapper, frame>>

\* Element::id and Element::current_commit of the PixelShaderElement.
PixelId == pixel.id
CurrentCommit == pixel.commit_counter

NextPixel ==
    \/ \E id \in ElementIds, a \in Areas, o \in RegionOpts, u \in UniformVecs :
           NewPixel(id, a, o, u)
    \/ \E a \in Areas, o \in RegionOpts : Resize(a, o)
    \/ \E u \in UniformVecs : UpdateUniforms(u)

SpecPixel == Init /\ [][NextPixel]_vars

\* C25: resize adds one to the commit counter and stores the area and the
\* opaque regions when the area or the opaque regions, None standing for no
\* region, differ from the stored ones, and otherwise changes none of the
\* three; update_uniforms always adds one to the commit counter; the id of
\* the element stays what new gave it.
C25_ResizeCommitsOnChange ==
    [][/\ \A a \in Areas, o \in RegionOpts : Resize(a, o) =>
              LET regions == IF o = None THEN <<>> ELSE o.v IN
              IF a # pixel.area \/ regions # pixel.opaque_regions
              THEN /\ CurrentCommit' = CurrentCommit + 1
                   /\ pixel'.area = a
                   /\ pixel'.opaque_regions = regions
              ELSE /\ CurrentCommit' = CurrentCommit
                   /\ pixel'.area = pixel.area
                   /\ pixel'.opaque_regions = pixel.opaque_regions
       /\ ret'.op = "resize" =>
              /\ CurrentCommit' \in {CurrentCommit, CurrentCommit + 1}
              /\ CurrentCommit' = CurrentCommit <=>
                     /\ pixel'.area = pixel.area
                     /\ pixel'.opaque_regions = pixel.opaque_regions
              /\ pixel'.additional_uniforms = pixel.additional_uniforms
       /\ ret'.op = "update_uniforms" =>
              /\ CurrentCommit' = CurrentCommit + 1
              /\ pixel'.area = pixel.area
              /\ pixel'.opaque_regions = pixel.opaque_regions
       /\ pixel # NoPixel => PixelId' = PixelId
      ]_vars

\* C25 witness: resize has returned on an element with opaque regions that
\* had been committed twice by then, so that a resize to the stored area and
\* regions, and one with None, were among the calls possible.
C25_Witness ==
    /\ ret.op = "resize"
    /\ pixel.opaque_regions # <<>>
    /\ pixel.area = <<0, 0, 2, 2>>
    /\ CurrentCommit = 2
    /\ PixelId = 2


(***************************************************************************)
(* TextureShaderWrapperElement<E>: draws the element E it wraps with its   *)
(* own texture program.  E is the generic parameter: what its draw returns *)
(* and does to the frame is drawn from what its signature allows.          *)
(***************************************************************************)

\* Gles2TexProgram values.
TexPrograms == {"blur", "tint"}

\* Result<(), Gles2Error> of a draw.
DrawOk == [ok |-> TRUE, err |-> "none"]
DrawErr(e) == [ok |-> FALSE, err |-> e]
DrawResults == {DrawOk, DrawErr("BindError"), DrawErr("ContextLost")}

\* What the draw of the wrapped element does to the override of the frame it
\* is lent: nothing, clear it (E is a wrapper itself), or put its own.
FrameEffects == {"keep", "clear", "replace"}

\* The texture program and uniforms of the wrapper, cloned.
WrapperProgram ==
    [shader |-> wrapper.shader, additional_uniforms |-> wrapper.additional_uniforms]

\* TextureShaderWrapperElement::new
NewWrapper(shader, additional_uniforms, opaque_regions) ==
    /\ wrapper = NoWrapper
    /\ wrapper' = [shader |-> shader,
                   additional_uniforms |-> IntoOwned(additional_uniforms),
                   opaque_regions |-> opaque_regions,
                   pc |-> "idle", result |-> NoDraw, ret |-> NoDraw]
    /\ ret' = NoRet
    /\ UNCHANGED <<builder, fdTable, inner, strongH, weakH, pc, cur, alloc,
                   pixel, frame>>

\* TextureShaderWrapperElement::update_opaque_regions
WrapperUpdateOpaqueRegions(opaque_regions) ==
    /\ wrapper.pc = "idle"
    /\ wrapper' = [wrapper EXCEPT !.opaque_regions = opaque_regions]
    /\ ret' = NoRet
    /\ UNCHANGED <<builder, fdTable, inner, strongH, weakH, pc, cur, alloc,
                   pixel, frame>>

\* TextureShaderWrapperElement::update_uniforms
WrapperUpdateUniforms(additional_uniforms) ==
    /\ wrapper.pc = "idle"
    /\ wrapper' = [wrapper EXCEPT !.additional_uniforms = IntoOwned(additional_uniforms)]
    /\ ret' = NoRet
    /\ UNCHANGED <<builder, fdTable, inner, strongH, weakH, pc, cur, alloc,
                   pixel, frame>>

\* Gles2Frame::override_default_tex_program, called by the compositor itself
\* while no draw of the wrapper borrows the frame.
FrameOverride(shader) ==
    /\ wrapper.pc = "idle"
    /\ frame' = [tex_program_override |->
                     [shader |-> shader, additional_uniforms |-> <<>>],
                 log |-> <<>>]
    /\ ret' = NoRet
    /\ UNCHANGED <<builder, fdTable, inner, strongH, weakH, pc, cur, alloc,
                   pixel, wrapper>>

\* draw, first statement:
\* frame.override_default_tex_program(shader.clone(), additional_uniforms.clone())
DrawInstall ==
    /\ wrapper.pc = "idle"
    /\ frame' = [tex_program_override |-> WrapperProgram,
                 log |-> <<"override_default_tex_program">>]
    /\ wrapper' = [wrapper EXCEPT !.pc = "installed",
                                  !.result = NoDraw, !.ret = NoDraw]
    /\ ret' = NoRet
    /\ UNCHANGED <<builder, fdTable, inner, strongH, weakH, pc, cur, alloc,
                   pixel>>

\* draw, second statement: let result = self.element.draw(frame, ...)
DrawWrapped(result, effect) ==
    /\ wrapper.pc = "installed"
    /\ frame' = [tex_program_override |->
                     CASE effect = "keep" -> frame.tex_program_override
                       [] effect = "clear" -> NoOverride
                       [] effect = "replace" ->
                              [shader |-> "inner", additional_uniforms |-> <<>>],
                 log |-> Append(frame.log, "draw")]
    /\ wrapper' = [wrapper EXCEPT !.pc = "drawn", !.result = result]
    /\ ret' = NoRet
    /\ UNCHANGED <<builder, fdTable, inner, strongH, weakH, pc, cur, alloc,
                   pixel>>

\* A draw that returns the error of the wrapped draw at once, through `?`.
DrawClearOnOk ==
    /\ wrapper.pc = "drawn"
    /\ frame' = IF wrapper.result.ok
                THEN [tex_program_override |-> NoOverride,
                      log |-> Append(frame.log, "clear_tex_program_override")]
                ELSE frame
    /\ wrapper' = [wrapper EXCEPT !.pc = "idle", !.ret = wrapper.result]
    /\ ret' = NoRet
    /\ UNCHANGED <<builder, fdTable, inner, strongH, weakH, pc, cur, alloc,
                   pixel>>

\* draw, the last statements: frame.clear_tex_program_override(); result
DrawClear ==
    /\ wrapper.pc = "drawn"
    /\ frame' = [tex_program_override |-> NoOverride,
                 log |-> Append(frame.log, "clear_tex_program_override")]
    /\ wrapper' = [wrapper EXCEPT !.pc = "idle", !.ret = wrapper.result]
    /\ ret' = NoRet
    /\ UNCHANGED <<builder, fdTable, inner, strongH, weakH, pc, cur, alloc,
                   pixel>>

NextWrapper ==
    \/ \E s \in TexPrograms, u \in UniformVecs, o \in {None, Some(<<>>)} :
           NewWrapper(s, u, o)
    \/ \E o \in {None, Some(<<>>)} : WrapperUpdateOpaqueRegions(o)
    \/ \E u \in UniformVecs : WrapperUpdateUniforms(u)
    \/ \E s \in TexPrograms : FrameOverride(s)
    \/ DrawInstall
    \/ \E r \in DrawResults, e \in FrameEffects : DrawWrapped(r, e)
    \/ DrawClear

SpecWrapper == Init /\ [][NextWrapper]_vars

\* The calls draw makes on the frame, in their order.
DrawCalls == <<"override_default_tex_program", "draw", "clear_tex_program_override">>

\* C26: draw of the wrapper puts the wrapper's texture program and uniforms
\* on the frame before it draws the wrapped element, which is drawn with no
\* other call in between, and clears the override after the wrapped draw has
\* returned, Ok or Err: when draw returns the frame has no override, and the
\* Result returned is the one of the wrapped draw.
C26_OverrideClearedAfterDraw ==
    [][/\ (wrapper.pc = "installed" /\ wrapper'.pc = "drawn") =>
              /\ frame.tex_program_override = WrapperProgram
              /\ frame.log = SubSeq(DrawCalls, 1, 1)
              /\ frame'.log = SubSeq(DrawCalls, 1, 2)
       /\ (wrapper.pc = "drawn" /\ wrapper'.pc = "idle") =>
              /\ frame'.tex_program_override = NoOverride
              /\ frame'.log = DrawCalls
              /\ wrapper'.ret = wrapper.result
              /\ wrapper'.ret \in DrawResults
       /\ (wrapper.pc # "idle" /\ wrapper'.pc = "idle") => wrapper.pc \in {"none", "drawn"}
      ]_vars

\* C26 witness: draw has returned the error of the wrapped draw, which had
\* left an override on the frame, and the frame has none.
C26_Witness ==
    /\ wrapper.pc = "idle"
    /\ wrapper.ret = DrawErr("ContextLost")
    /\ wrapper.additional_uniforms # <<>>
    /\ frame.log = DrawCalls
    /\ frame.tex_program_override = NoOverride

====
